---- MODULE Spec2Model ----
(***************************************************************************)
(* TransparentImageViewer: the directory navigation hook (useFileSystem),  *)
(* the App component's selection state and the PreviewPanel load effect.   *)
(*                                                                         *)
(* Every `await` of the source is a point where other handlers may run, so *)
(* each asynchronous handler is cut into one action per stretch of code    *)
(* between two awaits.  A load in flight is a record of `loads`.           *)
(***************************************************************************)
EXTENDS Integers, Sequences, FiniteSets, TLC

VARIABLES
    currentDirectoryHandle, \* useFileSystem: useState<FileSystemDirectoryHandle | null>
    directoryStack,         \* useFileSystem: ancestors, oldest first
    files,                  \* useFileSystem: FileSystemFile[]
    folders,                \* useFileSystem: FileSystemFolder[]
    isLoading,              \* useFileSystem: busy flag
    error,                  \* useFileSystem: string | null
    storeFiles,             \* useAppStore.files (synced from the hook by an effect)
    favoriteDirectories,    \* useAppStore.favoriteDirectories
    idb,                    \* idb-keyval: what the browser stores under FAVORITES_KEY
    idbFails,               \* IndexedDB requests currently fail (quota, private mode, ...)
    call,                   \* the latest call of a favorites operation of the store
    reading,                \* loadFavoriteDirectories suspended at its await idbGet
    selectedFile,           \* App: useState<FileSystemFile | null>
    isPreviewOpen,          \* App: useState(false)
    loads,                  \* navigation handlers suspended at an await, in start order
    last,                   \* history: the handler that returned in the latest step (NoLoad
                            \*          when the latest step was not a return)
    root,                   \* history: the handle the last successful root open or jump made current
    route,                  \* history: while every transition since the last root open succeeded,
                            \*          the path they describe (root first); <<>> otherwise
    src,                    \* PreviewPanel: the file whose object URL is shown, or NullFile
    analysis,               \* PreviewPanel: useState<ImageAnalysisResult | null>
    tasks,                  \* PreviewPanel: load() closures suspended at an await
    image,                  \* analyzeImage: the decoded image (img.width, img.height) and the
                            \*               pixels getImageData returns for it
    result,                 \* analyzeImage: how the returned promise settled
    entries                 \* the file system: what values() of directory L yields, in order

nav  == <<currentDirectoryHandle, directoryStack, files, folders, isLoading, error, storeFiles>>
sel  == <<selectedFile, isPreviewOpen>>
hist == <<last, root, route>>
prev == <<src, analysis, tasks>>
pix  == <<image, result>>
favorites == <<favoriteDirectories, idb, idbFails, call, reading>>

vars == <<nav, favorites, sel, loads, hist, prev, pix, entries>>

Null == "null"

\* null where a FileSystemFile is expected
NullFile == [name |-> Null, handle |-> <<>>, type |-> Null]

(***************************************************************************)
(* Bounds.                                                                 *)
(***************************************************************************)
MaxStack == 2    \* directoryStack never grows beyond this many handles
MaxLoads == 2    \* navigation handlers in flight at once
MaxTasks == 2    \* PreviewPanel load() closures in flight at once
MaxClock == 0    \* Date.now() ranges over 0..MaxClock
MaxPixels == 2   \* rasters up to this many pixels are enumerated with every content
MaxTime == 1      \* Date.now() of the favorites operations ranges over 0..MaxTime
MaxListed == 3   \* entries of directory L

(***************************************************************************)
(* The file system the handles refer to.  A directory handle is the        *)
(* directory's identity; a file handle is <<directory, name>>.             *)
(* DirEntries gives handle.values() in the order the platform returns the  *)
(* entries, which is not sorted.  Directories A to D hold fixed entries;   *)
(* the content and the enumeration order of directory L are the variable   *)
(* `entries`.                                                              *)
(***************************************************************************)
Dirs == {"A", "B", "C", "D"}

PickDirs == {"A", "D"}

DirName(d) ==
    CASE d = "A" -> "pics"
      [] d = "B" -> "sub"
      [] d = "C" -> "deep"
      [] d = "D" -> "pics"
      [] d = "L" -> "list"

FileEnt(n) == [kind |-> "file", name |-> n, dir |-> Null]
DirEnt(d)  == [kind |-> "directory", name |-> DirName(d), dir |-> d]

\* the most entries a directory of the fixture holds
MaxEntries == 5

FixedEntries(d) ==
    CASE d = "A" -> <<FileEnt("x.png"), DirEnt("B"), FileEnt("notes.txt"),
                      FileEnt("m10.jpg"), FileEnt("M2.JPG")>>
      [] d = "B" -> <<FileEnt("x.png"), DirEnt("C")>>
      [] d = "C" -> <<FileEnt("c.gif"), FileEnt("README"), FileEnt("b.webp")>>
      [] d = "D" -> <<FileEnt("x.png")>>

DirEntries(d) == IF d = "L" THEN entries ELSE FixedEntries(d)

NameChars(n) ==
    CASE n = "x.png"     -> <<"x", ".", "p", "n", "g">>
      [] n = "notes.txt" -> <<"n", "o", "t", "e", "s", ".", "t", "x", "t">>
      [] n = "m10.jpg"   -> <<"m", "1", "0", ".", "j", "p", "g">>
      [] n = "M2.JPG"    -> <<"M", "2", ".", "J", "P", "G">>
      [] n = "c.gif"     -> <<"c", ".", "g", "i", "f">>
      [] n = "README"    -> <<"R", "E", "A", "D", "M", "E">>
      [] n = "b.webp"    -> <<"b", ".", "w", "e", "b", "p">>
      [] n = "pics"      -> <<"p", "i", "c", "s">>
      [] n = "sub"       -> <<"s", "u", "b">>
      [] n = "deep"      -> <<"d", "e", "e", "p">>
      [] n = "list"      -> <<"l", "i", "s", "t">>
      [] n = "X.PNG"     -> <<"X", ".", "P", "N", "G">>
      [] n = "png"       -> <<"p", "n", "g">>

(***************************************************************************)
(* Strings.  A name is handled through its characters (NameChars).         *)
(***************************************************************************)
LowerCase == <<"a", "b", "c", "d", "e", "f", "g", "h", "i", "j", "k", "l", "m",
               "n", "o", "p", "q", "r", "s", "t", "u", "v", "w", "x", "y", "z">>
UpperCase == <<"A", "B", "C", "D", "E", "F", "G", "H", "I", "J", "K", "L", "M",
               "N", "O", "P", "Q", "R", "S", "T", "U", "V", "W", "X", "Y", "Z">>
Digits    == <<"0", "1", "2", "3", "4", "5", "6", "7", "8", "9">>

IndexIn(c, seq) ==
    IF \E i \in 1..Len(seq) : seq[i] = c
    THEN CHOOSE i \in 1..Len(seq) : seq[i] = c
    ELSE 0

\* String.prototype.toLowerCase, one character
ToLowerChar(c) == IF IndexIn(c, UpperCase) > 0 THEN LowerCase[IndexIn(c, UpperCase)] ELSE c

ToLowerCase(s) == [i \in 1..Len(s) |-> ToLowerChar(s[i])]

\* name.split('.').pop(): what follows the last '.', the whole name when it has none
LastDot(s) ==
    IF \E i \in 1..Len(s) : s[i] = "."
    THEN CHOOSE i \in 1..Len(s) : s[i] = "." /\ \A j \in (i + 1)..Len(s) : s[j] # "."
    ELSE 0

SplitPop(s) == SubSeq(s, LastDot(s) + 1, Len(s))

IMAGE_EXTENSIONS ==
    { <<"p", "n", "g">>, <<"j", "p", "g">>, <<"j", "p", "e", "g">>, <<"w", "e", "b", "p">>,
      <<"s", "v", "g">>, <<"g", "i", "f">>, <<"a", "v", "i", "f">>, <<"b", "m", "p">> }

\* ext && IMAGE_EXTENSIONS.includes(ext), with ext = name.split('.').pop()?.toLowerCase()
IsImageName(n) ==
    LET ext == ToLowerCase(SplitPop(NameChars(n)))
    IN  ext # <<>> /\ ext \in IMAGE_EXTENSIONS

(***************************************************************************)
(* a.localeCompare(b, undefined, {numeric: true, sensitivity: 'base'}):    *)
(* case is ignored, a run of digits compares by its value, punctuation     *)
(* sorts before digits and digits before letters.                          *)
(***************************************************************************)
IsDigit(c) == IndexIn(c, Digits) > 0

RECURSIVE DigitRun(_, _)
DigitRun(s, i) == IF i <= Len(s) /\ IsDigit(s[i]) THEN 1 + DigitRun(s, i + 1) ELSE 0

RECURSIVE NumValue(_, _, _)
NumValue(s, i, n) ==
    IF n = 0 THEN 0 ELSE NumValue(s, i, n - 1) * 10 + (IndexIn(s[i + n - 1], Digits) - 1)

\* the collation elements of s from position i on: <<class, weight>> pairs
RECURSIVE CollationKey(_, _)
CollationKey(s, i) ==
    IF i > Len(s) THEN <<>>
    ELSE IF IsDigit(s[i])
         THEN LET n == DigitRun(s, i)
              IN  <<<<1, NumValue(s, i, n)>>>> \o CollationKey(s, i + n)
         ELSE IF IndexIn(ToLowerChar(s[i]), LowerCase) > 0
              THEN <<<<2, IndexIn(ToLowerChar(s[i]), LowerCase)>>>> \o CollationKey(s, i + 1)
              ELSE <<<<0, 0>>>> \o CollationKey(s, i + 1)

RECURSIVE KeyCompare(_, _)
KeyCompare(k1, k2) ==
    IF k1 = <<>> /\ k2 = <<>> THEN 0
    ELSE IF k1 = <<>> THEN -1
    ELSE IF k2 = <<>> THEN 1
    ELSE IF Head(k1)[1] # Head(k2)[1] THEN (IF Head(k1)[1] < Head(k2)[1] THEN -1 ELSE 1)
    ELSE IF Head(k1)[2] # Head(k2)[2] THEN (IF Head(k1)[2] < Head(k2)[2] THEN -1 ELSE 1)
    ELSE KeyCompare(Tail(k1), Tail(k2))

LocaleCompare(a, b) == KeyCompare(CollationKey(NameChars(a), 1), CollationKey(NameChars(b), 1))

\* Array.prototype.sort with the comparator above (stable)
RECURSIVE InsertByName(_, _)
InsertByName(e, sorted) ==
    IF sorted = <<>> THEN <<e>>
    ELSE IF LocaleCompare(e.name, Head(sorted).name) < 0 THEN <<e>> \o sorted
    ELSE <<Head(sorted)>> \o InsertByName(e, Tail(sorted))

RECURSIVE SortByName(_)
SortByName(seq) ==
    IF seq = <<>> THEN <<>>
    ELSE InsertByName(seq[Len(seq)], SortByName(SubSeq(seq, 1, Len(seq) - 1)))

(***************************************************************************)
(* loadFilesFromDirectory, the scan: what the loop has pushed to newFiles  *)
(* and newFolders after the first k entries of handle.values().            *)
(***************************************************************************)
RECURSIVE ScanFiles(_, _, _)
ScanFiles(d, values, k) ==
    IF k = 0 THEN <<>>
    ELSE LET e == values[k]
         IN  IF e.kind = "file" /\ IsImageName(e.name)
             THEN Append(ScanFiles(d, values, k - 1),
                         [name |-> e.name, handle |-> <<d, e.name>>, type |-> "image"])
             ELSE ScanFiles(d, values, k - 1)

RECURSIVE ScanFolders(_, _)
ScanFolders(values, k) ==
    IF k = 0 THEN <<>>
    ELSE LET e == values[k]
         IN  IF e.kind = "directory"
             THEN Append(ScanFolders(values, k - 1), [name |-> e.name, handle |-> e.dir])
             ELSE ScanFolders(values, k - 1)

\* newFiles and newFolders after k entries, for the fixed directories (computed once)
Scanned ==
    [d \in Dirs |-> [k \in 0..Len(FixedEntries(d)) |->
        [files |-> ScanFiles(d, FixedEntries(d), k), folders |-> ScanFolders(FixedEntries(d), k)]]]

\* the two sorts at the end of the scan, for the fixed directories (computed once)
Listed ==
    [d \in Dirs |->
        [files   |-> SortByName(Scanned[d][Len(FixedEntries(d))].files),
         folders |-> SortByName(Scanned[d][Len(FixedEntries(d))].folders)]]

ScannedFiles(d, k) == IF d = "L" THEN ScanFiles(d, entries, k) ELSE Scanned[d][k].files

ScannedFolders(d, k) == IF d = "L" THEN ScanFolders(entries, k) ELSE Scanned[d][k].folders

ListedFiles(d) ==
    IF d = "L" THEN SortByName(ScanFiles(d, entries, Len(entries))) ELSE Listed[d].files

ListedFolders(d) ==
    IF d = "L" THEN SortByName(ScanFolders(entries, Len(entries))) ELSE Listed[d].folders

(***************************************************************************)
(* useFileSystem.                                                          *)
(***************************************************************************)
EngineState ==
    [cur |-> currentDirectoryHandle, stack |-> directoryStack, files |-> files, folders |-> folders]

NoState == [cur |-> Null, stack |-> <<>>, files |-> <<>>, folders |-> <<>>]

\* A handler in flight: op, the handle it loads, where it is suspended (pc), what
\* queryPermission (q) and requestPermission (r) answered.  History: partial, the
\* scan had pushed entries when it threw; solo, no other handler was in flight with it; pre, the
\* engine state when it was issued (kept while solo).
NoLoad ==
    [op |-> "none", handle |-> Null, pc |-> "none", q |-> "none", r |-> "none", partial |-> FALSE,
     solo |-> TRUE, pre |-> NoState]

\* the handlers in flight once one more has been issued
Issue(op, h, pc) ==
    Append([i \in 1..Len(loads) |-> [loads[i] EXCEPT !.solo = FALSE, !.pre = NoState]],
           [op |-> op, handle |-> h, pc |-> pc, q |-> "none", r |-> "none", partial |-> FALSE,
            solo |-> (loads = <<>>), pre |-> IF loads = <<>> THEN EngineState ELSE NoState])

RemoveAt(seq, i) == SubSeq(seq, 1, i - 1) \o SubSeq(seq, i + 1, Len(seq))

\* showDirectoryPicker() is a modal dialog: while it is open the page gets no input
PickerOpen == \E i \in 1..Len(loads) : loads[i].pc = "picker"

\* the path returned by the hook: [...directoryStack, currentDirectoryHandle].filter(h => h !== null)
path ==
    IF currentDirectoryHandle = Null THEN directoryStack
    ELSE Append(directoryStack, currentDirectoryHandle)

canNavigateUp == Len(directoryStack) > 0

\* the effect of App that copies the hook's listing into the store
SyncStore(handle, hookFiles) == IF handle # Null THEN hookFiles ELSE storeFiles

\* setError(err.message || "Failed to read directory")
ErrorText(message) == IF message = "" THEN "Failed to read directory" ELSE message

\* the messages of the errors the platform calls may throw ("" : an error without message)
ThrownMessages == {"", "I/O error"}

(***************************************************************************)
(* A navigation handler up to its first await inside loadFilesFromDirectory*)
(* : the caller's setDirectoryStack(newStack), then setIsLoading(true) and *)
(* setError(null).                                                         *)
(***************************************************************************)
BeginLoad(op, h, newStack) ==
    /\ Len(loads) < MaxLoads
    /\ Len(newStack) <= MaxStack
    /\ directoryStack' = newStack
    /\ isLoading' = TRUE
    /\ error' = Null
    /\ loads' = Issue(op, h, "query")
    /\ route' = IF loads = <<>> THEN route ELSE <<>>
    /\ last' = NoLoad
    /\ UNCHANGED <<currentDirectoryHandle, files, folders, storeFiles, favorites,
                   sel, root, prev>>

(***************************************************************************)
(* useAppStore: the favorites kept in memory.                              *)
(***************************************************************************)
\* Date.now() never runs backwards: no earlier than any timestamp still kept
Timestamps == {favoriteDirectories[i].addedAt : i \in 1..Len(favoriteDirectories)}

DateNowWithin(max) == {t \in 0..max : \A u \in Timestamps : u <= t}

DateNow == DateNowWithin(MaxClock)

\* favoriteDirectories.findIndex(d => d.name === name), 0 when there is none
FavoriteIndex(favs, name) ==
    IF \E i \in 1..Len(favs) : favs[i].name = name
    THEN CHOOSE i \in 1..Len(favs) : favs[i].name = name /\ \A j \in 1..(i - 1) : favs[j].name # name
    ELSE 0

\* newFavorites.sort((a, b) => b.addedAt - a.addedAt) (stable)
RECURSIVE InsertByAddedAt(_, _)
InsertByAddedAt(e, sorted) ==
    IF sorted = <<>> THEN <<e>>
    ELSE IF Head(sorted).addedAt - e.addedAt > 0 THEN <<Head(sorted)>> \o InsertByAddedAt(e, Tail(sorted))
    ELSE <<e>> \o sorted

RECURSIVE SortByAddedAtDesc(_)
SortByAddedAtDesc(seq) ==
    IF seq = <<>> THEN <<>>
    ELSE InsertByAddedAt(Head(seq), SortByAddedAtDesc(Tail(seq)))

\* mutant: an existing entry takes the handle it is upserted with
addFavoriteDirectoryReplacesHandle(favs, handle, t) ==
    LET existingIndex == FavoriteIndex(favs, DirName(handle))
    IN  SortByAddedAtDesc(
            IF existingIndex > 0
            THEN [favs EXCEPT ![existingIndex].addedAt = t, ![existingIndex].handle = handle]
            ELSE Append(favs, [name |-> DirName(handle), handle |-> handle, addedAt |-> t]))

\* mutant: the entry is pushed without looking for one of the same name
addFavoriteDirectoryAlwaysPushes(favs, handle, t) ==
    SortByAddedAtDesc(Append(favs, [name |-> DirName(handle), handle |-> handle, addedAt |-> t]))

\* addFavoriteDirectory(handle) called at time t: the list it commits with setState
addFavoriteDirectory(favs, handle, t) ==
    LET existingIndex == FavoriteIndex(favs, DirName(handle))
    IN  SortByAddedAtDesc(
            IF existingIndex > 0
            THEN [favs EXCEPT ![existingIndex].addedAt = t]
            ELSE Append(favs, [name |-> DirName(handle), handle |-> handle, addedAt |-> t]))

\* toggleFavorite(handle) called at time t: the list it commits with setState
ToggledFavorites(favs, handle, t) ==
    LET existingIndex == FavoriteIndex(favs, DirName(handle))
    IN  SortByAddedAtDesc(
            IF existingIndex > 0
            THEN SelectSeq(favs, LAMBDA d : d.name # DirName(handle))
            ELSE Append(favs, [name |-> DirName(handle), handle |-> handle, addedAt |-> t]))

\* removeFavoriteDirectory(name): favoriteDirectories.filter(d => d.name !== name)
RemovedFavorites(favs, name) == SelectSeq(favs, LAMBDA d : d.name # name)

(***************************************************************************)
(* useAppStore: the favorites operations and the persistent store.         *)
(* idb-keyval keeps one value under FAVORITES_KEY; get() of a key never    *)
(* written gives undefined.  A request fails while idbFails holds.  call   *)
(* records the latest operation: the value it handed to idbSet, whether    *)
(* the store request failed and how the operation's promise settled.       *)
(***************************************************************************)
Absent == [present |-> FALSE, value |-> <<>>]

\* no favorites operation was called since the page was loaded
NoCall == [op |-> "none", handed |-> <<>>, failed |-> FALSE, outcome |-> "resolved"]

\* await idbSet(FAVORITES_KEY, value), inside try/catch (caught) or not
idbSet(op, value, caught) ==
    /\ idb' = IF idbFails THEN idb ELSE [present |-> TRUE, value |-> value]
    /\ call' = [op |-> op, handed |-> value, failed |-> idbFails,
                outcome |-> IF idbFails /\ ~caught THEN "rejected" ELSE "resolved"]
    /\ UNCHANGED <<idbFails, reading>>

\* useAppStore.addFavoriteDirectory(handle), Date.now() being t
AddFavorite(handle, t) ==
    /\ favoriteDirectories' = addFavoriteDirectory(favoriteDirectories, handle, t)
    /\ idbSet("addFavoriteDirectory", favoriteDirectories', TRUE)

\* useAppStore.toggleFavorite(handle), Date.now() being t
toggleFavorite(handle, t) ==
    /\ favoriteDirectories' = ToggledFavorites(favoriteDirectories, handle, t)
    /\ idbSet("toggleFavorite", favoriteDirectories', TRUE)

\* useAppStore.removeFavoriteDirectory(name): the await is not in a try block
removeFavoriteDirectory(name) ==
    /\ favoriteDirectories' = RemovedFavorites(favoriteDirectories, name)
    /\ idbSet("removeFavoriteDirectory", favoriteDirectories', FALSE)

\* no idbGet is in flight
NoRead == [active |-> FALSE, value |-> Absent]

\* useAppStore.loadFavoriteDirectories, called by the App's effect on mount, up to its
\* await.  IndexedDB runs the requests on one store in the order they were made, so the
\* get delivers the value stored when it was issued, whatever is written afterwards.
idbGet ==
    /\ reading' = [active |-> TRUE, value |-> idb]

\* loadFavoriteDirectories after the await: if (favorites) setState(...), or the catch
loadFavoriteDirectories ==
    /\ reading.active
    /\ favoriteDirectories' = IF ~idbFails /\ reading.value.present
                              THEN reading.value.value ELSE favoriteDirectories
    /\ call' = [op |-> "loadFavoriteDirectories", handed |-> <<>>, failed |-> idbFails,
                outcome |-> "resolved"]
    /\ reading' = NoRead
    /\ UNCHANGED <<idb, idbFails>>

(***************************************************************************)
(* The handlers that start a navigation.                                   *)
(***************************************************************************)
\* Sidebar "Open Folder" -> handleOpenPicker -> openDirectory, up to showDirectoryPicker()
OpenPicker ==
    /\ ~PickerOpen
    /\ Len(loads) < MaxLoads
    /\ loads' = Issue("openPicker", Null, "picker")
    /\ route' = IF loads = <<>> THEN route ELSE <<>>
    /\ last' = NoLoad
    /\ UNCHANGED <<nav, favorites, sel, root, prev>>

\* openDirectory: the picker resolved with h; setDirectoryStack([]), then the load starts
PickerResolve(i, h) ==
    /\ loads[i].pc = "picker"
    /\ directoryStack' = <<>>
    /\ isLoading' = TRUE
    /\ error' = Null
    /\ loads' = [loads EXCEPT ![i].pc = "query", ![i].handle = h]
    /\ last' = NoLoad
    /\ UNCHANGED <<currentDirectoryHandle, files, folders, storeFiles, favorites,
                   sel, root, route, prev>>

\* openDirectory: the user cancelled the picker (AbortError); handleOpenPicker gets null
PickerAbort(i) ==
    /\ loads[i].pc = "picker"
    /\ loads' = RemoveAt(loads, i)
    /\ last' = [loads[i] EXCEPT !.pc = "cancelled"]
    /\ UNCHANGED <<nav, favorites, sel, root, route, prev>>

\* mutant: the stack is reset before the picker is shown
PickerThrowsClearsStack(i) ==
    /\ loads[i].pc = "picker"
    /\ error' = "Failed to open directory"
    /\ directoryStack' = <<>>
    /\ loads' = RemoveAt(loads, i)
    /\ last' = [loads[i] EXCEPT !.pc = "pickerFailed"]
    /\ route' = <<>>
    /\ UNCHANGED <<currentDirectoryHandle, files, folders, isLoading,
                   storeFiles, favorites, sel, root, prev>>

\* openDirectory: the picker failed otherwise; setError("Failed to open directory")
PickerThrows(i) ==
    /\ loads[i].pc = "picker"
    /\ error' = "Failed to open directory"
    /\ loads' = RemoveAt(loads, i)
    /\ last' = [loads[i] EXCEPT !.pc = "pickerFailed"]
    /\ route' = <<>>
    /\ UNCHANGED <<currentDirectoryHandle, directoryStack, files, folders, isLoading,
                   storeFiles, favorites, sel, root, prev>>

\* Sidebar history entry -> OPEN_HISTORY -> handleOpenHistory -> openDirectoryWithHandle
openDirectoryWithHandle(h) ==
    /\ ~PickerOpen
    /\ \E i \in 1..Len(favoriteDirectories) : favoriteDirectories[i].handle = h
    /\ BeginLoad("openHistory", h, <<>>)

\* mutant: entering a folder keeps only the directory left as the stack
NavigateStackReplaces(resetStack) ==
    IF resetStack THEN <<>>
    ELSE IF currentDirectoryHandle # Null THEN <<currentDirectoryHandle>>
    ELSE directoryStack

\* mutant: resetStack is ignored
NavigateStackKeeps(resetStack) ==
    IF currentDirectoryHandle # Null THEN Append(directoryStack, currentDirectoryHandle)
    ELSE directoryStack

\* navigateToDirectory: the stack it sets before the load
NavigateStack(resetStack) ==
    IF resetStack THEN <<>>
    ELSE IF currentDirectoryHandle # Null THEN Append(directoryStack, currentDirectoryHandle)
    ELSE directoryStack

navigateToDirectory(folder, resetStack) ==
    BeginLoad(IF resetStack THEN "jumpTo" ELSE "enter", folder.handle, NavigateStack(resetStack))

\* ThumbnailGrid renders the tiles only when the store is not loading
GridShown == ~isLoading /\ ~(Len(storeFiles) = 0 /\ Len(folders) = 0)

\* folder tile -> handleFolderClick
handleFolderClick(k) ==
    /\ ~PickerOpen
    /\ GridShown
    /\ k \in 1..Len(folders)
    /\ navigateToDirectory(folders[k], FALSE)

\* mutant: without the early return the last segment is loaded again
handleBreadcrumbNavigateAlways(index) ==
    /\ ~PickerOpen
    /\ index \in 0..(Len(path) - 1)
    /\ navigateToDirectory([name |-> DirName(path[index + 1]), handle |-> path[index + 1]], TRUE)

\* Breadcrumbs: Home (index 0) or segment k -> handleBreadcrumbNavigate(handle, index)
handleBreadcrumbNavigate(index) ==
    /\ ~PickerOpen
    /\ index \in 0..(Len(path) - 1)
    /\ IF index = Len(path) - 1
       THEN /\ last' = [NoLoad EXCEPT !.op = "jumpTo", !.pc = "noop", !.handle = path[index + 1],
                                      !.pre = EngineState]
            /\ UNCHANGED <<nav, favorites, sel, loads, root, route, prev>>
       ELSE navigateToDirectory([name |-> DirName(path[index + 1]), handle |-> path[index + 1]], TRUE)

\* mutant: the parent is taken from the wrong end of the stack
NavigateUpOldest == directoryStack[1]

\* navigateUp: parent = directoryStack[directoryStack.length - 1]
NavigateUpParent == directoryStack[Len(directoryStack)]

\* navigateUp: newStack = directoryStack.slice(0, -1)
NavigateUpStack == SubSeq(directoryStack, 1, Len(directoryStack) - 1)

\* mutant: without the early return, an empty stack reloads the current directory
navigateUpReloads ==
    /\ ~PickerOpen
    /\ IF Len(directoryStack) = 0
       THEN currentDirectoryHandle # Null /\ BeginLoad("up", currentDirectoryHandle, <<>>)
       ELSE BeginLoad("up", NavigateUpParent, NavigateUpStack)

\* navigateUp (the Back button is rendered only when canNavigateUp)
navigateUp ==
    /\ ~PickerOpen
    /\ IF Len(directoryStack) = 0
       THEN /\ last' = [NoLoad EXCEPT !.op = "up", !.pc = "noop", !.pre = EngineState]
            /\ UNCHANGED <<nav, favorites, sel, loads, root, route, prev>>
       ELSE BeginLoad("up", NavigateUpParent, NavigateUpStack)

(***************************************************************************)
(* loadFilesFromDirectory after its first await.                           *)
(***************************************************************************)
\* what handleOpenPicker does once openDirectory returned the handle
AfterReturn(l, t) ==
    IF l.op = "openPicker"
    THEN AddFavorite(l.handle, t)
    ELSE UNCHANGED favorites

\* mutant: the catch block stores what the scan had collected
LoadFailsCommitsPartial(i, message, partialFiles, partialFolders) ==
    /\ error' = ErrorText(message)
    /\ isLoading' = FALSE
    /\ files' = partialFiles
    /\ folders' = partialFolders
    /\ storeFiles' = SyncStore(currentDirectoryHandle, partialFiles)
    /\ UNCHANGED <<currentDirectoryHandle, directoryStack>>
    /\ loads' = RemoveAt(loads, i)
    /\ last' = [loads[i] EXCEPT !.pc = "failed", !.partial = (Len(partialFiles) + Len(partialFolders) > 0)]
    /\ route' = <<>>
    /\ \E t \in DateNow : AfterReturn(loads[i], t)
    /\ UNCHANGED <<sel, root, prev>>

\* catch: setError(...); finally: setIsLoading(false).  partialFiles and partialFolders
\* are newFiles and newFolders as the scan left them.
LoadFails(i, message, partialFiles, partialFolders) ==
    /\ error' = ErrorText(message)
    /\ isLoading' = FALSE
    /\ UNCHANGED <<currentDirectoryHandle, directoryStack, files, folders, storeFiles>>
    /\ loads' = RemoveAt(loads, i)
    /\ last' = [loads[i] EXCEPT !.pc = "failed", !.partial = (Len(partialFiles) + Len(partialFolders) > 0)]
    /\ route' = <<>>
    /\ \E t \in DateNow : AfterReturn(loads[i], t)
    /\ UNCHANGED <<sel, root, prev>>

\* mutant: only a 'denied' answer leads to a request ('prompt' is taken as granted)
NeedsRequestOnlyIfDenied(permission) == permission = "denied"

\* if (permission !== 'granted'): requestPermission is called
NeedsRequest(permission) == permission # "granted"

\* if (request !== 'granted'): throw new Error('Permission denied')
Refused(request) == request # "granted"

\* await handle.queryPermission({mode: 'read'})
QueryPermission(i, res) ==
    /\ loads[i].pc = "query"
    /\ res \in {"granted", "prompt", "denied"}
    /\ loads' = [loads EXCEPT ![i].q = res,
                              ![i].pc = IF NeedsRequest(res) THEN "request" ELSE "scan"]
    /\ last' = NoLoad
    /\ UNCHANGED <<nav, favorites, sel, root, route, prev>>

QueryThrows(i, message) ==
    /\ loads[i].pc = "query"
    /\ LoadFails(i, message, <<>>, <<>>)

\* await handle.requestPermission({mode: 'read'})
RequestPermission(i, res) ==
    /\ loads[i].pc = "request"
    /\ res \in {"granted", "prompt", "denied"}
    /\ IF Refused(res)
       THEN LoadFails(i, "Permission denied", <<>>, <<>>)
       ELSE /\ loads' = [loads EXCEPT ![i].r = res, ![i].pc = "scan"]
            /\ last' = NoLoad
            /\ UNCHANGED <<nav, favorites, sel, root, route, prev>>

RequestThrows(i, message) ==
    /\ loads[i].pc = "request"
    /\ LoadFails(i, message, <<>>, <<>>)

\* the path the transition describes once it has succeeded
RouteAfter(l) ==
    CASE l.op = "enter" -> IF route # <<>> THEN Append(route, l.handle) ELSE <<>>
      [] l.op = "up"    -> IF Len(route) > 1 THEN SubSeq(route, 1, Len(route) - 1) ELSE <<>>
      [] OTHER          -> IF l.solo THEN <<l.handle>> ELSE <<>>

\* mutant: setFolders is skipped while another load is in flight
ScanCompletesFoldersLate(i) ==
    /\ loads[i].pc = "scan"
    /\ files' = ListedFiles(loads[i].handle)
    /\ folders' = IF Len(loads) > 1 THEN folders ELSE ListedFolders(loads[i].handle)
    /\ currentDirectoryHandle' = loads[i].handle
    /\ storeFiles' = SyncStore(currentDirectoryHandle', files')
    /\ isLoading' = FALSE
    /\ UNCHANGED <<directoryStack, error>>
    /\ loads' = RemoveAt(loads, i)
    /\ last' = [loads[i] EXCEPT !.pc = "ok"]
    /\ route' = RouteAfter(loads[i])
    /\ root' = IF loads[i].op \in {"enter", "up"} THEN root ELSE loads[i].handle
    /\ \E t \in DateNow : AfterReturn(loads[i], t)
    /\ UNCHANGED <<sel, prev>>

\* mutant: of two overlapping loads the one that completes first wins
ScanCompletesFirstWins(i) ==
    LET late == ~loads[i].solo /\ last.pc = "ok" IN
    /\ loads[i].pc = "scan"
    /\ files' = IF late THEN files ELSE ListedFiles(loads[i].handle)
    /\ folders' = IF late THEN folders ELSE ListedFolders(loads[i].handle)
    /\ currentDirectoryHandle' = IF late THEN currentDirectoryHandle ELSE loads[i].handle
    /\ storeFiles' = SyncStore(currentDirectoryHandle', files')
    /\ isLoading' = FALSE
    /\ UNCHANGED <<directoryStack, error>>
    /\ loads' = RemoveAt(loads, i)
    /\ last' = [loads[i] EXCEPT !.pc = "ok"]
    /\ route' = RouteAfter(loads[i])
    /\ root' = IF loads[i].op \in {"enter", "up"} THEN root ELSE loads[i].handle
    /\ \E t \in DateNow : AfterReturn(loads[i], t)
    /\ UNCHANGED <<sel, prev>>

\* the scan ran to its end: sort, setFiles, setFolders, setCurrentDirectoryHandle; finally
ScanCompletes(i) ==
    /\ loads[i].pc = "scan"
    /\ files' = ListedFiles(loads[i].handle)
    /\ folders' = ListedFolders(loads[i].handle)
    /\ currentDirectoryHandle' = loads[i].handle
    /\ storeFiles' = SyncStore(currentDirectoryHandle', files')
    /\ isLoading' = FALSE
    /\ UNCHANGED <<directoryStack, error>>
    /\ loads' = RemoveAt(loads, i)
    /\ last' = [loads[i] EXCEPT !.pc = "ok"]
    /\ route' = RouteAfter(loads[i])
    /\ root' = IF loads[i].op \in {"enter", "up"} THEN root ELSE loads[i].handle
    /\ \E t \in DateNow : AfterReturn(loads[i], t)
    /\ UNCHANGED <<sel, prev>>

\* handle.values() threw after k entries
ScanThrows(i, k, message) ==
    /\ loads[i].pc = "scan"
    /\ k \in 0..Len(DirEntries(loads[i].handle))
    /\ LoadFails(i, message, ScannedFiles(loads[i].handle, k), ScannedFolders(loads[i].handle, k))

(***************************************************************************)
(* App: the selection.  These handlers leave the PreviewPanel's own state  *)
(* to the effect that follows them (PreviewEffect below).                  *)
(***************************************************************************)
\* storeFiles.findIndex(f => f.name === selectedFile.name), -1 when there is none
FindIndex(list, name) ==
    IF \E i \in 1..Len(list) : list[i].name = name
    THEN (CHOOSE i \in 1..Len(list) : list[i].name = name /\ \A j \in 1..(i - 1) : list[j].name # name) - 1
    ELSE -1

\* mutant: next() wraps around at the last file
NextSelectedWraps ==
    LET idx == FindIndex(storeFiles, selectedFile.name)
    IN  IF selectedFile = NullFile THEN selectedFile
        ELSE IF idx < Len(storeFiles) - 1 THEN storeFiles[idx + 2]
        ELSE storeFiles[1]

\* handleNext: the file that is selected afterwards
NextSelected ==
    LET idx == FindIndex(storeFiles, selectedFile.name)
    IN  IF selectedFile = NullFile THEN selectedFile
        ELSE IF idx < Len(storeFiles) - 1 THEN storeFiles[idx + 2]
        ELSE selectedFile

\* handlePrev: the file that is selected afterwards
PrevSelected ==
    LET idx == FindIndex(storeFiles, selectedFile.name)
    IN  IF selectedFile = NullFile THEN selectedFile
        ELSE IF idx > 0 THEN storeFiles[idx]
        ELSE selectedFile

\* the PreviewPanel is mounted (and listens to the keyboard) only while isPreviewOpen
handleNext ==
    /\ ~PickerOpen
    /\ isPreviewOpen
    /\ selectedFile' = NextSelected
    /\ last' = [NoLoad EXCEPT !.op = "next", !.pc = "done"]
    /\ UNCHANGED <<nav, favorites, isPreviewOpen, loads, root, route>>

handlePrev ==
    /\ ~PickerOpen
    /\ isPreviewOpen
    /\ selectedFile' = PrevSelected
    /\ last' = [NoLoad EXCEPT !.op = "prev", !.pc = "done"]
    /\ UNCHANGED <<nav, favorites, isPreviewOpen, loads, root, route>>

\* thumbnail -> handleImageClick(file)
handleImageClick(k) ==
    /\ ~PickerOpen
    /\ GridShown
    /\ k \in 1..Len(storeFiles)
    /\ selectedFile' = IF selectedFile.name = storeFiles[k].name THEN selectedFile ELSE storeFiles[k]
    /\ isPreviewOpen' = TRUE
    /\ last' = [NoLoad EXCEPT !.op = "click", !.pc = "done"]
    /\ UNCHANGED <<nav, favorites, loads, root, route>>

\* mutant: onClose closes the panel but keeps the selection
onCloseKeepsSelection ==
    /\ ~PickerOpen
    /\ isPreviewOpen
    /\ isPreviewOpen' = FALSE
    /\ last' = [NoLoad EXCEPT !.op = "close", !.pc = "done"]
    /\ UNCHANGED <<nav, favorites, selectedFile, loads, root, route>>

\* PreviewPanel onClose (Escape or the close button)
onClose ==
    /\ ~PickerOpen
    /\ isPreviewOpen
    /\ isPreviewOpen' = FALSE
    /\ selectedFile' = NullFile
    /\ last' = [NoLoad EXCEPT !.op = "close", !.pc = "done"]
    /\ UNCHANGED <<nav, favorites, loads, root, route>>

(***************************************************************************)
(* PreviewPanel: the effect on [file] and the load() closure it starts.    *)
(* A closure of tasks is [file, pc, active]: the file it loads, the await  *)
(* it is suspended at ("getFile", then "analyze") and its `active` flag.   *)
(* An analysis carries, as history, the file it was computed for.          *)
(* The effect is taken in the step of the handler that changes the file:   *)
(* React flushes pending effects before it renders the next update, so a   *)
(* completion that slips in between the two has its setAnalysis(res)       *)
(* overwritten by the effect's setAnalysis(null) before anything is shown. *)
(* InlineImageViewer (ImageViewer.tsx 24-52) runs the same effect.         *)
(***************************************************************************)
NullAnalysis == [file |-> NullFile, suggestedBackground |-> Null]

Backgrounds == {"dark", "light", "checkerboard"}

\* the cleanup of the effect: active = false in the closure of the previous run
Cleanup(ts) == [i \in 1..Len(ts) |-> [ts[i] EXCEPT !.active = FALSE]]

\* getBgStyle: mode = bgMode === 'auto' ? analysis?.suggestedBackground || 'checkerboard' : bgMode
getBgStyle(bgMode, a) ==
    IF bgMode = "auto"
    THEN IF a.suggestedBackground # Null THEN a.suggestedBackground ELSE "checkerboard"
    ELSE bgMode

\* mutant: the effect does not reset the analysis when the file changes
PreviewEffectKeepsAnalysis ==
    IF ~isPreviewOpen'
    THEN /\ src' = NullFile
         /\ analysis' = NullAnalysis
         /\ tasks' = Cleanup(tasks)
    ELSE IF isPreviewOpen /\ selectedFile' = selectedFile
    THEN UNCHANGED <<src, analysis, tasks>>
    ELSE IF selectedFile' = NullFile
    THEN /\ src' = NullFile
         /\ analysis' = NullAnalysis
         /\ tasks' = Cleanup(tasks)
    ELSE /\ Len(tasks) < MaxTasks
         /\ src' = IF isPreviewOpen THEN src ELSE NullFile
         /\ analysis' = IF isPreviewOpen THEN analysis ELSE NullAnalysis
         /\ tasks' = Append(Cleanup(tasks), [file |-> selectedFile', pc |-> "getFile", active |-> TRUE])

\* What follows a selection handler.  The panel is rendered only while isPreviewOpen:
\* closing it unmounts it (cleanup, state dropped), opening it mounts it with fresh
\* state, and a change of the file prop runs the cleanup and then the effect again.
PreviewEffect ==
    IF ~isPreviewOpen'
    THEN /\ src' = NullFile
         /\ analysis' = NullAnalysis
         /\ tasks' = Cleanup(tasks)
    ELSE IF isPreviewOpen /\ selectedFile' = selectedFile
    THEN UNCHANGED <<src, analysis, tasks>>
    ELSE IF selectedFile' = NullFile
    THEN /\ src' = NullFile
         /\ analysis' = NullAnalysis
         /\ tasks' = Cleanup(tasks)
    ELSE /\ Len(tasks) < MaxTasks
         /\ src' = IF isPreviewOpen THEN src ELSE NullFile
         /\ analysis' = NullAnalysis
         /\ tasks' = Append(Cleanup(tasks), [file |-> selectedFile', pc |-> "getFile", active |-> TRUE])

\* mutant: the result of analyzeImage is stored without looking at `active`
StoresResultAlways(t) == TRUE

\* if (active): the closure may still write the panel's state
StoresResult(t) == t.active

\* file.handle.getFile() resolved: if (active) setSrc(url) and analyzeImage(url) starts
GetFileResolves(i) ==
    /\ tasks[i].pc = "getFile"
    /\ IF StoresResult(tasks[i])
       THEN /\ src' = tasks[i].file
            /\ tasks' = [tasks EXCEPT ![i].pc = "analyze"]
            /\ last' = NoLoad
       ELSE /\ src' = src
            /\ tasks' = RemoveAt(tasks, i)
            /\ last' = [NoLoad EXCEPT !.op = "getFile", !.pc = "discarded"]
    /\ UNCHANGED <<nav, favorites, sel, loads, root, route, analysis>>

\* file.handle.getFile() rejected: catch (e) { console.error(e) }
GetFileRejects(i) ==
    /\ tasks[i].pc = "getFile"
    /\ tasks' = RemoveAt(tasks, i)
    /\ last' = [NoLoad EXCEPT !.op = "getFile", !.pc = "failed"]
    /\ UNCHANGED <<nav, favorites, sel, loads, root, route, src, analysis>>

\* analyzeImage(url) resolved with res: if (active) setAnalysis(res)
AnalyzeResolves(i, bg) ==
    /\ tasks[i].pc = "analyze"
    /\ analysis' = IF StoresResult(tasks[i])
                   THEN [file |-> tasks[i].file, suggestedBackground |-> bg]
                   ELSE analysis
    /\ tasks' = RemoveAt(tasks, i)
    /\ last' = [NoLoad EXCEPT !.op = "analyze",
                              !.pc = IF tasks[i].active THEN "stored" ELSE "discarded"]
    /\ UNCHANGED <<nav, favorites, sel, loads, root, route, src>>

\* analyzeImage(url) rejected: the promise has no catch, nothing is stored
AnalyzeRejects(i) ==
    /\ tasks[i].pc = "analyze"
    /\ tasks' = RemoveAt(tasks, i)
    /\ last' = [NoLoad EXCEPT !.op = "analyze", !.pc = "failed"]
    /\ UNCHANGED <<nav, favorites, sel, loads, root, route, src, analysis>>

(***************************************************************************)
(* analyzeImage.  JavaScript numbers are modelled as exact fractions       *)
(* [num, den]: the luminance weights are thousandths, the downscale ratio  *)
(* is MAX_SIZE over the larger dimension.  On the inputs of Images the     *)
(* doubles of the source decide every comparison as the fractions do.      *)
(* canvas.width / canvas.height are `unsigned long` attributes and the     *)
(* arguments of getImageData are `long`: a fractional value is truncated,  *)
(* so the raster that is read has whole dimensions while `width` and       *)
(* `height` keep their fractions.                                          *)
(***************************************************************************)
MAX_SIZE == 100

RECURSIVE GCD(_, _)
GCD(a, b) == IF b = 0 THEN a ELSE GCD(b, a % b)

Frac(n, d) == LET g == GCD(n, d) IN [num |-> n \div g, den |-> d \div g]

FracMul(x, y) ==
    LET g1 == GCD(x.num, y.den)
        g2 == GCD(y.num, x.den)
    IN  Frac((x.num \div g1) * (y.num \div g2), (x.den \div g2) * (y.den \div g1))

FracLess(x, y) == x.num * y.den < y.num * x.den

FracMin(x, y) == IF FracLess(y, x) THEN y ELSE x

\* ToUint32 / ToInt32 of a non-negative number: the fraction is dropped
Truncate(x) == x.num \div x.den

\* Math.min(MAX_SIZE / width, MAX_SIZE / height)
Ratio(w, h) == FracMin(Frac(MAX_SIZE, w), Frac(MAX_SIZE, h))

\* if (width > MAX_SIZE || height > MAX_SIZE)
Exceeds(w, h) == w > MAX_SIZE \/ h > MAX_SIZE

\* `width` and `height` after the downscale
ScaledWidth(w, h) == IF Exceeds(w, h) THEN FracMul(Frac(w, 1), Ratio(w, h)) ELSE Frac(w, 1)

ScaledHeight(w, h) == IF Exceeds(w, h) THEN FracMul(Frac(h, 1), Ratio(w, h)) ELSE Frac(h, 1)

\* the dimensions of the canvas, which are those of the ImageData read back
RasterWidth(w, h) == Truncate(ScaledWidth(w, h))

RasterHeight(w, h) == Truncate(ScaledHeight(w, h))

\* 0.299 * r + 0.587 * g + 0.114 * b, in thousandths
Luminance(p) == 299 * p.r + 587 * p.g + 114 * p.b

\* if (a < 10)
IsTransparentPixel(p) == p.a < 10

\* the pixel loop over data[lo..hi]: totalLuminance (thousandths), opaquePixelCount,
\* transparentPixelCount.  The three sums are exact, so the pixels are visited by halves
\* (a recursion as deep as the buffer is long exhausts the evaluator's stack).
RECURSIVE PixelLoop(_, _, _)
PixelLoop(data, lo, hi) ==
    IF lo > hi
    THEN [totalLuminance |-> 0, opaquePixelCount |-> 0, transparentPixelCount |-> 0]
    ELSE IF lo = hi
    THEN IF IsTransparentPixel(data[lo])
         THEN [totalLuminance |-> 0, opaquePixelCount |-> 0, transparentPixelCount |-> 1]
         ELSE [totalLuminance |-> Luminance(data[lo]), opaquePixelCount |-> 1,
               transparentPixelCount |-> 0]
    ELSE LET mid == (lo + hi) \div 2
             x == PixelLoop(data, lo, mid)
             y == PixelLoop(data, mid + 1, hi)
         IN  [totalLuminance |-> x.totalLuminance + y.totalLuminance,
              opaquePixelCount |-> x.opaquePixelCount + y.opaquePixelCount,
              transparentPixelCount |-> x.transparentPixelCount + y.transparentPixelCount]

Counts(data) == PixelLoop(data, 1, Len(data))

\* totalPixels = width * height
TotalPixels(w, h) == FracMul(ScaledWidth(w, h), ScaledHeight(w, h))

\* transparentPixelCount > (totalPixels * 0.05)
HasTransparency(count, w, h) == FracLess(FracMul(TotalPixels(w, h), Frac(5, 100)), Frac(count, 1))

\* averageLuminance: 0, or totalLuminance / opaquePixelCount when there are opaque pixels
AverageLuminance(c) ==
    IF c.opaquePixelCount > 0
    THEN [num |-> c.totalLuminance, den |-> 1000 * c.opaquePixelCount]
    ELSE [num |-> 0, den |-> 1]

\* mutant: 128 counts as dark
IsDarkInclusive(avg) == ~FracLess([num |-> 128, den |-> 1], avg)

\* isDark = averageLuminance < 128
IsDark(avg) == FracLess(avg, [num |-> 128, den |-> 1])

\* mutant: the suggestion follows the subject instead of contrasting with it
SuggestedBackgroundSame(hasTransparency, isDark) ==
    IF hasTransparency THEN (IF isDark THEN "dark" ELSE "light") ELSE "checkerboard"

\* the logic for suggested background
SuggestedBackground(hasTransparency, isDark) ==
    IF hasTransparency THEN (IF isDark THEN "light" ELSE "dark") ELSE "checkerboard"

Pending == [state |-> "pending"]

Rejected(why) == [state |-> "rejected", reason |-> why]

\* img.onload for an image im = [width, height, data]: how the promise settles.
\* getImageData throws IndexSizeError when the truncated width or height is 0; the
\* catch rejects with it.  getContext('2d') of a fresh canvas is never null.
analyzeImage(im) ==
    IF RasterWidth(im.width, im.height) = 0 \/ RasterHeight(im.width, im.height) = 0
    THEN Rejected("IndexSizeError")
    ELSE LET c == Counts(im.data)
             hasTransparency == HasTransparency(c.transparentPixelCount, im.width, im.height)
             averageLuminance == AverageLuminance(c)
             isDark == IsDark(averageLuminance)
         IN  [state |-> "resolved",
              hasTransparency |-> hasTransparency,
              isDark |-> isDark,
              suggestedBackground |-> SuggestedBackground(hasTransparency, isDark),
              averageLuminance |-> averageLuminance]

\* the inputs: rasters of at most MaxPixels pixels with every content over Pixels, and
\* larger rasters that hold k transparent pixels followed by opaque ones
Alphas == {0, 9, 10, 255}

\* black, a dark grey, white, and a colour of luminance exactly 128.  For each of them
\* the double 0.299 * r + 0.587 * g + 0.114 * b is the exact value, so every comparison
\* analyzeImage makes on these inputs has the outcome the exact fractions give.
Colours == {<<0, 0, 0>>, <<50, 50, 50>>, <<255, 255, 255>>, <<30, 202, 4>>}

Pixels == {[r |-> c[1], g |-> c[2], b |-> c[3], a |-> a] : c \in Colours, a \in Alphas}

SmallSizes == {wh \in (1..MaxPixels) \X (1..MaxPixels) : wh[1] * wh[2] <= MaxPixels}

LargeSizes == {<<20, 1>>, <<200, 2>>, <<101, 2>>, <<120, 3>>, <<300, 2>>, <<2, 300>>, <<5000, 101>>}

RasterPixels(wh) == RasterWidth(wh[1], wh[2]) * RasterHeight(wh[1], wh[2])

Filled(k, p, n, q) == [i \in 1..n |-> IF i <= k THEN p ELSE q]

Images ==
    {[width |-> wh[1], height |-> wh[2], data |-> d] :
        wh \in SmallSizes, d \in UNION {[1..n -> Pixels] : n \in 1..MaxPixels}}
    \cup {[width |-> wh[1], height |-> wh[2], data |-> Filled(k, p, RasterPixels(wh), q)] :
        wh \in LargeSizes, k \in 0..(2 * MAX_SIZE), p \in {x \in Pixels : x.a = 9 /\ x.r = 255},
        q \in {x \in Pixels : x.a = 255}}

NoImage == [width |-> 0, height |-> 0, data |-> <<>>]

\* analyzeImage(imageSrc) is called: a new promise, a new Image
NewPromise ==
    /\ result.state # "pending"
    /\ image' = NoImage
    /\ result' = Pending
    /\ UNCHANGED <<nav, favorites, sel, loads, hist, prev, entries>>

\* img.onload: the image decoded, the raster is read and classified
onload(im) ==
    /\ result.state = "pending"
    /\ Len(im.data) = RasterPixels(<<im.width, im.height>>)
    /\ image' = im
    /\ result' = analyzeImage(im)
    /\ UNCHANGED <<nav, favorites, sel, loads, hist, prev, entries>>

\* img.onerror: the image did not decode
onerror ==
    /\ result.state = "pending"
    /\ image' = NoImage
    /\ result' = Rejected("onerror")
    /\ UNCHANGED <<nav, favorites, sel, loads, hist, prev, entries>>

\* the App mounted, nothing opened yet
\* What App renders, and hands to Breadcrumbs, ThumbnailGrid, Sidebar and PreviewPanel,
\* when the hook's error is hookError.  App takes openDirectory, openDirectoryWithHandle,
\* loadFilesFromDirectory, navigateToDirectory, navigateUp, canNavigateUp, files, folders,
\* isLoading, currentDirectoryHandle and path from useFileSystem(); error is not taken.
AppView(hookError) ==
    [back        |-> canNavigateUp,
     breadcrumbs |-> [i \in 1..Len(path) |-> DirName(path[i])],
     isFavorite  |-> /\ currentDirectoryHandle # Null
                     /\ FavoriteIndex(favoriteDirectories, DirName(currentDirectoryHandle)) > 0,
     isLoading   |-> isLoading,
     folders     |-> folders,
     files       |-> storeFiles,
     sidebar     |-> favoriteDirectories,
     current     |-> currentDirectoryHandle,
     selected    |-> selectedFile,
     preview     |-> isPreviewOpen]

Mounted ==
    /\ currentDirectoryHandle = Null
    /\ directoryStack = <<>>
    /\ files = <<>>
    /\ folders = <<>>
    /\ isLoading = FALSE
    /\ error = Null
    /\ storeFiles = <<>>
    /\ favoriteDirectories = <<>>
    /\ idb = Absent
    /\ idbFails = FALSE
    /\ call = NoCall
    /\ reading = NoRead
    /\ selectedFile = NullFile
    /\ isPreviewOpen = FALSE
    /\ loads = <<>>
    /\ last = NoLoad
    /\ root = Null
    /\ route = <<>>
    /\ src = NullFile
    /\ analysis = NullAnalysis
    /\ tasks = <<>>
    /\ image = NoImage
    /\ result = Pending

Init == Mounted /\ entries = <<>>

NavNext ==
    \/ OpenPicker /\ UNCHANGED <<pix, entries>>
    \/ \E i \in 1..Len(loads), h \in PickDirs : PickerResolve(i, h) /\ UNCHANGED <<pix, entries>>
    \/ \E i \in 1..Len(loads) : PickerAbort(i) /\ UNCHANGED <<pix, entries>>
    \/ \E i \in 1..Len(loads) : PickerThrows(i) /\ UNCHANGED <<pix, entries>>
    \/ \E h \in Dirs : openDirectoryWithHandle(h) /\ UNCHANGED <<pix, entries>>
    \/ \E k \in 1..Len(folders) : handleFolderClick(k) /\ UNCHANGED <<pix, entries>>
    \/ \E index \in 0..MaxStack : handleBreadcrumbNavigate(index) /\ UNCHANGED <<pix, entries>>
    \/ navigateUp /\ UNCHANGED <<pix, entries>>
    \/ \E i \in 1..Len(loads), res \in {"granted", "prompt", "denied"} : QueryPermission(i, res) /\ UNCHANGED <<pix, entries>>
    \/ \E i \in 1..Len(loads), m \in ThrownMessages : QueryThrows(i, m) /\ UNCHANGED <<pix, entries>>
    \/ \E i \in 1..Len(loads), res \in {"granted", "prompt", "denied"} : RequestPermission(i, res) /\ UNCHANGED <<pix, entries>>
    \/ \E i \in 1..Len(loads), m \in ThrownMessages : RequestThrows(i, m) /\ UNCHANGED <<pix, entries>>
    \/ \E i \in 1..Len(loads) : ScanCompletes(i) /\ UNCHANGED <<pix, entries>>
    \/ \E i \in 1..Len(loads), k \in 0..MaxEntries, m \in ThrownMessages : ScanThrows(i, k, m) /\ UNCHANGED <<pix, entries>>

SelNext ==
    \/ \E k \in 1..Len(storeFiles) : handleImageClick(k) /\ UNCHANGED prev /\ UNCHANGED <<pix, entries>>
    \/ handleNext /\ UNCHANGED prev /\ UNCHANGED <<pix, entries>>
    \/ handlePrev /\ UNCHANGED prev /\ UNCHANGED <<pix, entries>>
    \/ onClose /\ UNCHANGED prev /\ UNCHANGED <<pix, entries>>

\* the navigation hook under every interleaving of its handlers
Next == NavNext

Spec == Init /\ [][Next]_vars

\* the App as the UI is meant to drive it: one navigation at a time (none starts while
\* another is in flight), with the selection handlers
SerialNext ==
    \/ NavNext /\ (Len(loads') > Len(loads) => loads = <<>>)
    \/ SelNext

SerialSpec == Init /\ [][SerialNext]_vars

\* The PreviewPanel over the listing of one directory: the App once the picker has
\* opened directory A, the selection handlers each followed by the panel's effect, and
\* the completions of getFile and analyzeImage in any order.
PreviewInit ==
    /\ currentDirectoryHandle = "A"
    /\ directoryStack = <<>>
    /\ files = ListedFiles("A")
    /\ folders = ListedFolders("A")
    /\ isLoading = FALSE
    /\ error = Null
    /\ storeFiles = ListedFiles("A")
    /\ favoriteDirectories = addFavoriteDirectory(<<>>, "A", 0)
    /\ idb = [present |-> TRUE, value |-> favoriteDirectories]
    /\ idbFails = FALSE
    /\ call = [op |-> "addFavoriteDirectory", handed |-> favoriteDirectories, failed |-> FALSE,
               outcome |-> "resolved"]
    /\ reading = NoRead
    /\ selectedFile = NullFile
    /\ isPreviewOpen = FALSE
    /\ loads = <<>>
    /\ last = [NoLoad EXCEPT !.op = "openPicker", !.handle = "A", !.pc = "ok", !.q = "granted",
                             !.pre = EngineState]
    /\ root = "A"
    /\ route = <<"A">>
    /\ src = NullFile
    /\ analysis = NullAnalysis
    /\ tasks = <<>>
    /\ image = NoImage
    /\ result = Pending
    /\ entries = <<>>

PreviewNext ==
    \/ \E k \in 1..Len(storeFiles) : handleImageClick(k) /\ PreviewEffect /\ UNCHANGED <<pix, entries>>
    \/ handleNext /\ PreviewEffect /\ UNCHANGED <<pix, entries>>
    \/ handlePrev /\ PreviewEffect /\ UNCHANGED <<pix, entries>>
    \/ onClose /\ PreviewEffect /\ UNCHANGED <<pix, entries>>
    \/ \E i \in 1..Len(tasks) : GetFileResolves(i) /\ UNCHANGED <<pix, entries>>
    \/ \E i \in 1..Len(tasks) : GetFileRejects(i) /\ UNCHANGED <<pix, entries>>
    \/ \E i \in 1..Len(tasks), bg \in Backgrounds : AnalyzeResolves(i, bg) /\ UNCHANGED <<pix, entries>>
    \/ \E i \in 1..Len(tasks) : AnalyzeRejects(i) /\ UNCHANGED <<pix, entries>>

PreviewSpec == PreviewInit /\ [][PreviewNext]_vars

\* analyzeImage applied to every image of Images
AnalyzeNext ==
    \/ NewPromise
    \/ \E im \in Images : onload(im)
    \/ onerror

AnalyzeSpec == Init /\ [][AnalyzeNext]_vars

\* Listing directory L, whose content is any enumeration of at most MaxListed of these
\* entries; the platform may return them in another order at every listing.
EntryPool ==
    {FileEnt("x.png"), FileEnt("X.PNG"), FileEnt("m10.jpg"), FileEnt("M2.JPG"),
     FileEnt("notes.txt"), FileEnt("README"), FileEnt("png"), DirEnt("B"), DirEnt("C")}

Enumerations ==
    {e \in UNION {[1..n -> EntryPool] : n \in 0..MaxListed} :
        \A i, j \in 1..Len(e) : i # j => e[i] # e[j]}

\* values() yields the entries of the unchanged directory in another order
Reorder(e) ==
    /\ e # entries
    /\ {e[i] : i \in 1..Len(e)} = {entries[i] : i \in 1..Len(entries)}
    /\ Len(e) = Len(entries)
    /\ entries' = e
    /\ UNCHANGED <<nav, favorites, sel, loads, hist, prev, pix>>

ListInit == Mounted /\ entries \in Enumerations

ListNext ==
    \/ OpenPicker /\ loads = <<>> /\ UNCHANGED <<pix, entries>>
    \/ \E i \in 1..Len(loads) : PickerResolve(i, "L") /\ UNCHANGED <<pix, entries>>
    \/ \E i \in 1..Len(loads) : QueryPermission(i, "granted") /\ UNCHANGED <<pix, entries>>
    \/ \E i \in 1..Len(loads) : ScanCompletes(i) /\ UNCHANGED <<pix, entries>>
    \/ \E e \in Enumerations : Reorder(e)

ListSpec == ListInit /\ [][ListNext]_vars

\* The favorites operations of the store, called in any order with any directory, while
\* the clock runs up to MaxTime, IndexedDB fails and recovers, and the page is reloaded.
IdbFlips ==
    /\ idbFails' = ~idbFails
    /\ UNCHANGED <<favoriteDirectories, idb, call, reading>>

\* the page is loaded again: the store is created anew, IndexedDB keeps its content, and
\* the App's effect calls loadFavoriteDirectories
Reload ==
    /\ favoriteDirectories' = <<>>
    /\ call' = NoCall
    /\ idbGet
    /\ UNCHANGED <<idb, idbFails>>

\* the directories the operations are called with: two of the same name, one of another
FavDirs == {"A", "B", "D"}

FavNext ==
    \/ \E h \in FavDirs, t \in DateNowWithin(MaxTime) : AddFavorite(h, t) /\ UNCHANGED <<nav, sel, loads, hist, prev, pix, entries>>
    \/ \E h \in FavDirs, t \in DateNowWithin(MaxTime) : toggleFavorite(h, t) /\ UNCHANGED <<nav, sel, loads, hist, prev, pix, entries>>
    \/ \E h \in FavDirs : removeFavoriteDirectory(DirName(h)) /\ UNCHANGED <<nav, sel, loads, hist, prev, pix, entries>>
    \/ loadFavoriteDirectories /\ UNCHANGED <<nav, sel, loads, hist, prev, pix, entries>>
    \/ IdbFlips /\ UNCHANGED <<nav, sel, loads, hist, prev, pix, entries>>
    \/ Reload /\ UNCHANGED <<nav, sel, loads, hist, prev, pix, entries>>

FavSpec == Init /\ [][FavNext]_vars

\* the same operations with a store that never fails
MountNext ==
    \/ \E h \in FavDirs, t \in DateNowWithin(MaxTime) : AddFavorite(h, t) /\ UNCHANGED <<nav, sel, loads, hist, prev, pix, entries>>
    \/ \E h \in FavDirs, t \in DateNowWithin(MaxTime) : toggleFavorite(h, t) /\ UNCHANGED <<nav, sel, loads, hist, prev, pix, entries>>
    \/ \E h \in FavDirs : removeFavoriteDirectory(DirName(h)) /\ UNCHANGED <<nav, sel, loads, hist, prev, pix, entries>>
    \/ loadFavoriteDirectories /\ UNCHANGED <<nav, sel, loads, hist, prev, pix, entries>>
    \/ Reload /\ UNCHANGED <<nav, sel, loads, hist, prev, pix, entries>>

MountSpec == Init /\ [][MountNext]_vars

(***************************************************************************)
(* Properties.                                                             *)
(***************************************************************************)
\* a handler returned in the latest step, having run alone, and nothing is in flight
Settled(outcomes) == last.pc \in outcomes /\ last.solo /\ loads = <<>>

\* a handler of loads returns in this step
Returns == Len(loads') < Len(loads)

Range(seq) == {seq[i] : i \in 1..Len(seq)}

Granted(l) == l.q = "granted" \/ l.r = "granted"

\* C1: when the permission request of openRoot, enter, up or jumpTo is denied or
\* errors, the engine state {currentDirectoryHandle, directoryStack, files, folders}
\* after the aborted transition is the state before it was issued, and error is set.
C1_AbortKeepsState ==
    (Settled({"failed"}) /\ ~Granted(last)) => (EngineState = last.pre /\ error # Null)

\* C2: after serially issued transitions, succeeding or failing, directoryStack is
\* empty exactly when the current directory is a navigation root, and the path shown
\* is directoryStack followed by the current handle, which does not occur in the stack.
C2_EmptyStackIffRoot ==
    (loads = <<>> /\ currentDirectoryHandle # Null) =>
        /\ (directoryStack = <<>>) <=> (currentDirectoryHandle = root)
        /\ path = Append(directoryStack, currentDirectoryHandle)
        /\ currentDirectoryHandle \notin Range(directoryStack)

\* C3: a root open followed only by successful enter and up transitions, issued
\* serially, leaves the engine on the path those transitions describe: each up returns
\* to the directory that was current before the matching enter, and once every enter
\* is undone the root is current again, with its listing and an empty stack.
C3_RoundTrip ==
    (route # <<>> /\ loads = <<>>) =>
        /\ path = route
        /\ files = ListedFiles(route[Len(route)])
        /\ folders = ListedFolders(route[Len(route)])
        /\ (Len(route) = 1 => (currentDirectoryHandle = root /\ directoryStack = <<>>))

C3_Witness ==
    /\ last.op = "up" /\ last.pc = "ok" /\ loads = <<>>
    /\ last.pre.cur = "B" /\ last.pre.stack = <<"A">>
    /\ route = <<"A">> /\ currentDirectoryHandle = "A" /\ directoryStack = <<>>
    /\ files = ListedFiles("A")

\* C4: every successful navigation transition sets selectedFile to null and closes the
\* preview.
C4_NavigationClearsSelection ==
    [][(Returns /\ last'.pc = "ok") => (selectedFile' = NullFile /\ ~isPreviewOpen')]_vars

\* C5: a load is enumerating its handle only after queryPermission or requestPermission
\* answered 'granted' in that load; requestPermission is called only when the query did
\* not answer 'granted'; a load without the permission leaves files, folders and
\* currentDirectoryHandle as they are.
C5_PermissionBeforeListing ==
    /\ [](\A i \in 1..Len(loads) :
            /\ loads[i].pc = "scan" => Granted(loads[i])
            /\ (loads[i].pc = "request" \/ loads[i].r # "none") => loads[i].q \in {"prompt", "denied"})
    /\ [](last.pc = "ok" => Granted(last))
    /\ [][(Returns /\ ~Granted(last')) =>
            UNCHANGED <<files, folders, currentDirectoryHandle>>]_vars

C5_Witness ==
    \E i \in 1..Len(loads) :
        loads[i].pc = "scan" /\ loads[i].q = "prompt" /\ loads[i].r = "granted"

\* C6: a load that ends in an error (permission denied, a permission call throwing, the
\* enumeration throwing part-way) leaves files, folders and currentDirectoryHandle as
\* they were when it started, and error is set.
C6_FailedLoadKeepsListing ==
    Settled({"failed"}) =>
        /\ files = last.pre.files
        /\ folders = last.pre.folders
        /\ currentDirectoryHandle = last.pre.cur
        /\ error # Null

C6_Witness ==
    /\ Settled({"failed"}) /\ Granted(last) /\ last.partial
    /\ files # <<>> /\ last.handle # currentDirectoryHandle

\* what a successful root open of handle h leaves
OpenRootResult(h) ==
    [cur |-> h, stack |-> <<>>, files |-> ListedFiles(h), folders |-> ListedFolders(h)]

\* C7: once a jumpTo has returned with no other navigation in flight directoryStack is
\* empty, whether it succeeded or failed and however deep the segment; on success the
\* state is the one a root open of the same handle leaves.
C7_JumpLeavesEmptyStack ==
    /\ (Settled({"ok", "failed"}) /\ last.op = "jumpTo") => directoryStack = <<>>
    /\ (Settled({"ok"}) /\ last.op \in {"jumpTo", "openPicker", "openHistory"}) =>
            EngineState = OpenRootResult(last.handle)

C7_Witness ==
    /\ Settled({"ok"}) /\ last.op = "jumpTo"
    /\ Len(last.pre.stack) = 2 /\ last.handle = last.pre.stack[2]

\* C8: navigateUp with an empty directoryStack changes nothing and starts no load.
C8_UpOnEmptyStackIsNoOp ==
    [][(navigateUp /\ directoryStack = <<>>) =>
            UNCHANGED <<nav, loads, favoriteDirectories, sel>>]_vars

C8_Witness ==
    /\ last.op = "up" /\ last.pc = "noop"
    /\ currentDirectoryHandle # Null /\ directoryStack = <<>> /\ error # Null

\* the position of the active file in the listing, -1 when its name is not in it
ActiveIndex == FindIndex(storeFiles, selectedFile.name)

\* C9: with the active file at index i of the listing, next() selects files[i+1] when
\* i < length-1 and prev() selects files[i-1] when i > 0; otherwise they change nothing.
\* Neither wraps, neither closes the preview, the index stays within the listing.
C9_NextPrevStayInBounds ==
    /\ [][(handleNext /\ ActiveIndex >= 0) =>
            /\ selectedFile' = IF ActiveIndex < Len(storeFiles) - 1
                               THEN storeFiles[ActiveIndex + 2] ELSE selectedFile
            /\ isPreviewOpen'
            /\ FindIndex(storeFiles, selectedFile'.name) \in 0..(Len(storeFiles) - 1)]_vars
    /\ [][(handlePrev /\ ActiveIndex >= 0) =>
            /\ selectedFile' = IF ActiveIndex > 0 THEN storeFiles[ActiveIndex] ELSE selectedFile
            /\ isPreviewOpen'
            /\ FindIndex(storeFiles, selectedFile'.name) \in 0..(Len(storeFiles) - 1)]_vars

C9_Witness ==
    /\ last.op = "next" /\ isPreviewOpen
    /\ Len(storeFiles) = 3 /\ selectedFile = storeFiles[3]

\* C10: an analysis computed for a file that is no longer the active file is discarded:
\* whenever the preview's analysis is set, it is the result computed for the active file.
C10_AnalysisIsOfActiveFile ==
    analysis # NullAnalysis => (isPreviewOpen /\ analysis.file = selectedFile)

C10_Witness ==
    /\ last.op = "analyze" /\ last.pc = "discarded"
    /\ analysis # NullAnalysis /\ analysis.file = selectedFile

(***************************************************************************)
(* analyzeImage: properties of a settled classification.                   *)
(***************************************************************************)
\* the promise settled from img.onload
Classified == result.state = "resolved"

\* the positions of the raster whose alpha is below a
AlphaBelow(a) == {i \in 1..Len(image.data) : image.data[i].a < a}

OpaqueAt == (1..Len(image.data)) \ AlphaBelow(10)

RECURSIVE SumOver(_)
SumOver(S) ==
    IF S = {} THEN 0
    ELSE LET i == CHOOSE x \in S : TRUE
         IN  299 * image.data[i].r + 587 * image.data[i].g + 114 * image.data[i].b + SumOver(S \ {i})

\* C11: suggestedBackground is a function of (hasTransparency, isDark): checkerboard
\* without transparency (so for every raster with no transparent pixel), light for a
\* dark subject with transparency, dark for a light one (all-white opaque pixels).
C11_BackgroundFromFlags ==
    Classified =>
        /\ result.suggestedBackground =
              (IF ~result.hasTransparency THEN "checkerboard"
               ELSE IF result.isDark THEN "light" ELSE "dark")
        /\ (AlphaBelow(10) = {} =>
              (~result.hasTransparency /\ result.suggestedBackground = "checkerboard"))
        /\ (result.hasTransparency /\ OpaqueAt # {}
              /\ (\A i \in OpaqueAt : image.data[i].r = 255 /\ image.data[i].g = 255 /\ image.data[i].b = 255)
              => result.suggestedBackground = "dark")

C11_Witness ==
    /\ Classified /\ result.hasTransparency /\ ~result.isDark
    /\ result.suggestedBackground = "dark"
    /\ image.width = 1 /\ image.height = 2
    /\ image.data[1].a = 9 /\ image.data[1].r = 0 /\ image.data[2].r = 255

\* C12: a pixel is transparent exactly when its alpha is below 10, and hasTransparency
\* is true exactly when the transparent pixels are more than 5% of the pixels of the
\* raster (exactly 5% is not enough).
C12_TransparencyThreshold ==
    Classified =>
        (result.hasTransparency <=> 100 * Cardinality(AlphaBelow(10)) > 5 * Len(image.data))

\* C13: a fully transparent image is classified (the promise resolves) with
\* averageLuminance 0.
C13_FullyTransparentResolves ==
    (result.state \in {"resolved", "rejected"} /\ image # NoImage /\ OpaqueAt = {}) =>
        /\ Classified
        /\ result.averageLuminance.num = 0 /\ result.averageLuminance.den > 0

\* C14: averageLuminance is the luminance summed over the pixels with alpha >= 10,
\* divided by their number; it lies in [0, 255]; isDark is averageLuminance < 128, so
\* an average of exactly 128 is not dark; all-black opaque pixels give 0 and dark.
C14_AverageOverOpaque ==
    (Classified /\ OpaqueAt # {}) =>
        LET avg == result.averageLuminance
        IN  /\ avg.den > 0
            /\ Frac(avg.num, avg.den) = Frac(SumOver(OpaqueAt), 1000 * Cardinality(OpaqueAt))
            /\ 0 <= avg.num /\ avg.num <= 255 * avg.den
            /\ result.isDark <=> (SumOver(OpaqueAt) < 128000 * Cardinality(OpaqueAt))
            /\ ((\A i \in OpaqueAt : image.data[i].r = 0 /\ image.data[i].g = 0 /\ image.data[i].b = 0)
                  => (avg.num = 0 /\ result.isDark))

C14_Witness ==
    /\ Classified /\ ~result.isDark
    /\ Len(image.data) = 2
    /\ image.data[1].a = 9 /\ image.data[1].r = 0
    /\ image.data[2].a = 10 /\ image.data[2].r = 30 /\ image.data[2].g = 202
    /\ result.averageLuminance.num = 128 * result.averageLuminance.den

\* C15: an image of at most MAX_SIZE in both dimensions is sampled at its own size; a
\* larger one is sampled with the larger dimension equal to MAX_SIZE and the aspect
\* ratio of the source.
C15_DownscaleKeepsAspect ==
    (result.state \in {"resolved", "rejected"} /\ image # NoImage) =>
        LET rw == RasterWidth(image.width, image.height)
            rh == RasterHeight(image.width, image.height)
        IN  IF image.width <= MAX_SIZE /\ image.height <= MAX_SIZE
            THEN rw = image.width /\ rh = image.height
            ELSE /\ (IF rw > rh THEN rw ELSE rh) = MAX_SIZE
                 /\ rw * image.height = rh * image.width

(***************************************************************************)
(* The listing of a directory.                                             *)
(***************************************************************************)
EntriesOfKind(kind) == {entries[i] : i \in {j \in 1..Len(entries) : entries[j].kind = kind}}

\* a load of directory L has just succeeded
ListedL == last.pc = "ok" /\ last.handle = "L"

Ascending(list) ==
    \A i \in 1..(Len(list) - 1) : LocaleCompare(list[i].name, list[i + 1].name) <= 0

\* C16: after a successful load, files holds exactly the file entries of the directory
\* whose extension is an image extension (a name without '.' has none), each of type
\* 'image', and folders holds exactly its directory entries.
C16_ListingIsImagesAndFolders ==
    ListedL =>
        LET chars(n) == NameChars(n)
            ext(n) == IF LastDot(chars(n)) = 0 THEN <<>>
                      ELSE ToLowerCase(SubSeq(chars(n), LastDot(chars(n)) + 1, Len(chars(n))))
            images == {e \in EntriesOfKind("file") : ext(e.name) \in IMAGE_EXTENSIONS}
        IN  /\ {files[i].name : i \in 1..Len(files)} = {e.name : e \in images}
            /\ Len(files) = Cardinality(images)
            /\ \A i \in 1..Len(files) : files[i].type = "image"
            /\ {folders[i] : i \in 1..Len(folders)} =
                  {[name |-> e.name, handle |-> e.dir] : e \in EntriesOfKind("directory")}
            /\ Len(folders) = Cardinality(EntriesOfKind("directory"))

\* C17: after every successful load files and folders are ascending by name under the
\* collation, and listing the unchanged directory again, its entries enumerated in
\* another order, stores the same listing.
C17_SortedWhateverTheOrder ==
    /\ [](ListedL => (Ascending(files) /\ Ascending(folders)))
    /\ [][(currentDirectoryHandle = "L" /\ last'.pc = "ok" /\ last'.handle = "L") =>
            (files' = files /\ folders' = folders)]_vars

(***************************************************************************)
(* The favorites.                                                          *)
(***************************************************************************)
\* C18: every successful root open (by the picker or from the history) and every successful
\* breadcrumb jump upserts the favorites entry of the directory's name with the current
\* time: the favorites after it are those addFavoriteDirectory gives for that directory.
C18_OpenUpsertsFavorite ==
    [][(last'.pc = "ok" /\ last'.op \in {"openPicker", "openHistory", "jumpTo"}) =>
            /\ \E t \in DateNow :
                  favoriteDirectories' = addFavoriteDirectory(favoriteDirectories, last'.handle, t)
            /\ \E i \in 1..Len(favoriteDirectories') :
                  /\ favoriteDirectories'[i].name = DirName(last'.handle)
                  /\ \A j \in 1..Len(favoriteDirectories') :
                        favoriteDirectories'[j].addedAt <= favoriteDirectories'[i].addedAt]_vars

\* C19: when the store request of a favorites operation fails, the operation's promise
\* still resolves, and favoriteDirectories holds the list the operation computed (for
\* loadFavoriteDirectories, which computes none, only the promise is constrained).
C19_StoreFailureSwallowed ==
    call.failed =>
        /\ call.outcome = "resolved"
        /\ call.op # "loadFavoriteDirectories" => favoriteDirectories = call.handed

\* C20: whatever addFavoriteDirectory, toggleFavorite and removeFavoriteDirectory calls were
\* made, favoriteDirectories has at most one entry per name and is ordered by addedAt
\* descending, and the value the latest of these calls handed to idbSet is that list.
C20_FavoritesUniqueSortedPersisted ==
    /\ \A i, j \in 1..Len(favoriteDirectories) :
          /\ i # j => favoriteDirectories[i].name # favoriteDirectories[j].name
          /\ i < j => favoriteDirectories[i].addedAt >= favoriteDirectories[j].addedAt
    /\ call.op \in {"addFavoriteDirectory", "toggleFavorite", "removeFavoriteDirectory"} =>
          call.handed = favoriteDirectories

C20_Witness ==
    /\ call.op = "addFavoriteDirectory"
    /\ Len(favoriteDirectories) = 2
    /\ favoriteDirectories[1].name = "pics" /\ favoriteDirectories[1].handle = "D"
    /\ favoriteDirectories[1].addedAt > favoriteDirectories[2].addedAt

\* the names of a favorites list, in its order
NamesOf(favs) == [i \in 1..Len(favs) |-> favs[i].name]

\* C21: addFavoriteDirectory and removeFavoriteDirectory are idempotent: a second
\* addFavoriteDirectory(h) right after the first leaves the same names in the same order,
\* a second removeFavoriteDirectory(name) leaves the same list, and removing a name that
\* is absent changes nothing.
C21_UpsertAndRemoveIdempotent ==
    /\ \A h \in Dirs, t1 \in DateNowWithin(MaxTime) : \A t2 \in t1..MaxTime :
          LET once == addFavoriteDirectory(favoriteDirectories, h, t1)
          IN  NamesOf(addFavoriteDirectory(once, h, t2)) = NamesOf(once)
    /\ \A h \in Dirs :
          LET once == RemovedFavorites(favoriteDirectories, DirName(h))
          IN  /\ RemovedFavorites(once, DirName(h)) = once
              /\ FavoriteIndex(favoriteDirectories, DirName(h)) = 0 => once = favoriteDirectories

(***************************************************************************)
(* The preview when the classification fails.                              *)
(***************************************************************************)
\* analyzeImage rejected in this step
AnalysisFailed == last'.op = "analyze" /\ last'.pc = "failed"

\* C22: when analyzeImage rejects, the navigation state, the selection and the panel's
\* image are unchanged, and if the rejected classification was that of the file shown the
\* analysis is null, so that the background in 'auto' mode is 'checkerboard'.
C22_FailedAnalysisFallsBack ==
    [][AnalysisFailed =>
        /\ UNCHANGED <<nav, sel, src>>
        /\ \A i \in 1..Len(tasks) :
              (tasks[i].active /\ tasks[i].pc = "analyze" /\ tasks' = RemoveAt(tasks, i)) =>
                  /\ analysis' = NullAnalysis
                  /\ getBgStyle("auto", analysis') = "checkerboard"]_vars

C22_Witness ==
    /\ last.op = "analyze" /\ last.pc = "failed"
    /\ isPreviewOpen /\ selectedFile # NullFile /\ src = selectedFile
    /\ analysis = NullAnalysis
    /\ \A i \in 1..Len(tasks) : ~tasks[i].active

(***************************************************************************)
(* Overlapping loads.                                                      *)
(***************************************************************************)
\* C23: when two loads overlap and both succeed, the one that completes last wins: once
\* the second has completed, currentDirectoryHandle, files and folders are those of its
\* directory, whichever of the two was started first.
C23_LastCompletionWins ==
    [][(last.pc = "ok" /\ Len(loads) = 1 /\ last'.pc = "ok" /\ loads' = <<>>) =>
            /\ currentDirectoryHandle' = last'.handle
            /\ files' = ListedFiles(last'.handle)
            /\ folders' = ListedFolders(last'.handle)]_vars

\* an enter was started first (it pushed onto the stack), a root open or jump started
\* after it emptied the stack and succeeded, and the enter completed last
C23_Witness ==
    /\ loads = <<>> /\ last.pc = "ok" /\ ~last.solo /\ last.op = "enter"
    /\ directoryStack = <<>> /\ error = Null
    /\ currentDirectoryHandle = last.handle
    /\ files = ListedFiles(last.handle)

\* a load is in flight: a handler is inside loadFilesFromDirectory, past setIsLoading(true)
InFlight == \E i \in 1..Len(loads) : loads[i].pc # "picker"

\* C24: isLoading is true from the start of a load until that load has completed, and
\* false once no load is in flight, also when loads overlap.
C24_BusyWhileLoading == isLoading <=> InFlight

(***************************************************************************)
(* The transitions one by one.                                             *)
(***************************************************************************)
\* C25: a successful enter(folder) issued with current directory C and stack S leaves
\* stack = S followed by C, folder.handle current with its listing, and a path one
\* element longer.
C25_EnterPushesCurrent ==
    (Settled({"ok"}) /\ last.op = "enter") =>
        /\ directoryStack = Append(last.pre.stack, last.pre.cur)
        /\ currentDirectoryHandle = last.handle
        /\ files = ListedFiles(last.handle)
        /\ folders = ListedFolders(last.handle)
        /\ Len(path) = Len(last.pre.stack) + (IF last.pre.cur = Null THEN 0 ELSE 1) + 1

C25_Witness ==
    /\ Settled({"ok"}) /\ last.op = "enter"
    /\ last.pre.stack = <<"A">> /\ last.pre.cur = "B" /\ last.handle = "C"
    /\ path = <<"A", "B", "C">>

\* a root open (openDirectory once the picker resolved, or openDirectoryWithHandle) takes
\* its first step in this transition; no permission has been asked for yet
RootOpenBegins ==
    \E i \in 1..Len(loads') :
        /\ loads'[i].op \in {"openPicker", "openHistory"}
        /\ loads'[i].pc = "query"
        /\ (i > Len(loads) \/ loads[i].pc = "picker")

\* C26: a root open asks for the permission first and clears the stack only once it is
\* granted: no root open whose permission has not been granted empties the stack.
C26_StackClearedOnlyOnGrant ==
    [][RootOpenBegins => (directoryStack' = directoryStack)]_vars

\* C27: when a load has failed (permission denied or listing failure) its error message
\* is part of what the user sees: the view rendered with the message differs from the
\* view rendered without an error.
C27_ErrorIsShown ==
    (last.pc = "failed" /\ error # Null) => AppView(error) # AppView(Null)

\* a user action starts a navigation transition in this step
TransitionStarts == Len(loads') > Len(loads)

\* C28: the UI issues the navigation transitions one at a time: while isLoading is true
\* no user action (folder tile, Back, breadcrumb, history entry, Open Folder) starts one.
C28_TransitionsAreSerial ==
    [][TransitionStarts => ~isLoading]_vars

(***************************************************************************)
(* analyzeImage: the pixel total.                                          *)
(***************************************************************************)
\* C29: for every image, downscaled or not, totalPixels of the 5% threshold is the number
\* of pixels the loop visited (transparentPixelCount + opaquePixelCount), and the raster
\* sampled has at least one pixel in each dimension.
C29_TotalIsPixelsIterated ==
    (result.state \in {"resolved", "rejected"} /\ image # NoImage) =>
        LET c == Counts(image.data)
            total == TotalPixels(image.width, image.height)
        IN  /\ Frac(total.num, total.den) = Frac(c.transparentPixelCount + c.opaquePixelCount, 1)
            /\ RasterWidth(image.width, image.height) >= 1
            /\ RasterHeight(image.width, image.height) >= 1

(***************************************************************************)
(* Breadcrumbs.                                                            *)
(***************************************************************************)
\* C30: a click on the last breadcrumb segment, or on Home when the path has one segment,
\* starts no load and leaves currentDirectoryHandle, directoryStack, files and folders
\* as they are; a jumpTo starts only for a segment index below path.length - 1.
C30_LastSegmentIsNoOp ==
    /\ [][\A index \in 0..MaxStack :
            (handleBreadcrumbNavigate(index) /\ index = Len(path) - 1) =>
                UNCHANGED <<nav, loads>>]_vars
    /\ [][(TransitionStarts /\ loads'[Len(loads')].op = "jumpTo") =>
            \E index \in 0..(Len(path) - 2) : loads'[Len(loads')].handle = path[index + 1]]_vars

C30_Witness ==
    /\ last.op = "jumpTo" /\ last.pc = "noop"
    /\ Len(path) = 1 /\ last.handle = currentDirectoryHandle /\ last.pre = EngineState

(***************************************************************************)
(* The listing and the handle are committed by one load.                   *)
(***************************************************************************)
\* C31: in every reachable state, under every interleaving of loads, files and folders
\* are the listing of the directory that is current: the three were committed by the
\* same load, never mixed from two.
C31_ListingIsOfCurrent ==
    /\ currentDirectoryHandle = Null => (files = <<>> /\ folders = <<>>)
    /\ currentDirectoryHandle # Null =>
          /\ files = ListedFiles(currentDirectoryHandle)
          /\ folders = ListedFolders(currentDirectoryHandle)

\* a load has just committed while another one is listing a different directory
C31_Witness ==
    /\ last.pc = "ok" /\ ~last.solo /\ currentDirectoryHandle = last.handle
    /\ Len(loads) = 1 /\ loads[1].pc = "scan" /\ loads[1].handle # currentDirectoryHandle
    /\ folders # <<>>

(***************************************************************************)
(* The directory picker.                                                   *)
(***************************************************************************)
\* C32: when the user cancels the picker, currentDirectoryHandle, directoryStack, files,
\* folders and error are unchanged and no favorite is added; when the picker fails
\* otherwise, error becomes 'Failed to open directory' and the rest, directoryStack
\* included, is unchanged.
C32_PickerFailureKeepsState ==
    /\ [][last'.pc = "cancelled" =>
            UNCHANGED <<currentDirectoryHandle, directoryStack, files, folders, error,
                        favoriteDirectories>>]_vars
    /\ [][last'.pc = "pickerFailed" =>
            /\ error' = "Failed to open directory"
            /\ UNCHANGED <<currentDirectoryHandle, directoryStack, files, folders,
                           favoriteDirectories>>]_vars

C32_Witness ==
    /\ last.pc = "pickerFailed" /\ error = "Failed to open directory"
    /\ directoryStack # <<>> /\ currentDirectoryHandle # Null /\ loads = <<>>

\* C33: the picker flow adds a directory to the favorites only after its load succeeded:
\* an open by the picker whose permission was denied or whose listing failed leaves
\* favoriteDirectories as it was.
C33_FavoriteOnlyIfOpened ==
    [][(last'.op = "openPicker" /\ last'.pc = "failed") =>
            favoriteDirectories' = favoriteDirectories]_vars

(***************************************************************************)
(* The favorites across page loads.                                        *)
(***************************************************************************)
\* C34: however the mount-time loadFavoriteDirectories interleaves with the other
\* favorites operations, no update is lost: once no store operation is pending, the list
\* in memory and the list persisted are the same.
C34_NoLostUpdate ==
    ~reading.active => favoriteDirectories = (IF idb.present THEN idb.value ELSE <<>>)

\* the entries and the names of the list in memory
Entries == {favoriteDirectories[i] : i \in 1..Len(favoriteDirectories)}

Names == {favoriteDirectories[i].name : i \in 1..Len(favoriteDirectories)}

\* C35: addFavoriteDirectory(h) for a name that has an entry only refreshes its addedAt
\* (the handle stored earlier is kept, the number of entries is unchanged) and for a new
\* name adds exactly one entry {name, h, now}; toggleFavorite(h) removes the entry of
\* h.name if there is one and adds it otherwise, so two toggles restore the names.
C35_UpsertKeepsHandle ==
    /\ [][\A h \in FavDirs, t \in 0..MaxTime :
            (call'.op = "addFavoriteDirectory" /\ AddFavorite(h, t)) =>
            LET k == FavoriteIndex(favoriteDirectories, DirName(h))
                after == {favoriteDirectories'[i] : i \in 1..Len(favoriteDirectories')}
            IN  IF k > 0
                THEN /\ Len(favoriteDirectories') = Len(favoriteDirectories)
                     /\ after = (Entries \ {favoriteDirectories[k]})
                                  \cup {[name |-> DirName(h), handle |-> favoriteDirectories[k].handle,
                                         addedAt |-> t]}
                ELSE /\ Len(favoriteDirectories') = Len(favoriteDirectories) + 1
                     /\ after = Entries \cup {[name |-> DirName(h), handle |-> h, addedAt |-> t]}]_vars
    /\ [][\A h \in FavDirs, t \in 0..MaxTime :
            (call'.op = "toggleFavorite" /\ toggleFavorite(h, t)) =>
            LET after == {favoriteDirectories'[i] : i \in 1..Len(favoriteDirectories')}
            IN  IF DirName(h) \in Names
                THEN after = {e \in Entries : e.name # DirName(h)}
                ELSE after = Entries \cup {[name |-> DirName(h), handle |-> h, addedAt |-> t]}]_vars
    /\ [](\A h \in FavDirs, t1 \in DateNowWithin(MaxTime) : \A t2 \in t1..MaxTime :
            LET twice == ToggledFavorites(ToggledFavorites(favoriteDirectories, h, t1), h, t2)
            IN  {twice[i].name : i \in 1..Len(twice)} = Names)

\* the entry of 'pics' still holds the handle A it was created with, at the latest time,
\* beside another entry
C35_Witness ==
    /\ call.op = "addFavoriteDirectory" /\ ~call.failed
    /\ Len(favoriteDirectories) = 2
    /\ favoriteDirectories[1] = [name |-> "pics", handle |-> "A", addedAt |-> MaxTime]
    /\ idb.value = favoriteDirectories

\* C36: the preview is open exactly when a file is selected, after any sequence
\* of image clicks, next/prev, close and navigation.
C36_OpenIffSelected ==
    isPreviewOpen <=> selectedFile # NullFile

\* a navigation completed while a file stayed selected, and the panel is still open
C36_Witness ==
    /\ last.op = "enter"
    /\ last.pc = "ok"
    /\ isPreviewOpen
    /\ selectedFile # NullFile

\* C37: when the active file's name is not in the current listing (the lookup
\* gives -1), next() and prev() both leave the selection unchanged.
C37_AbsentKeepsSelection ==
    [][((handleNext \/ handlePrev) /\ FindIndex(storeFiles, selectedFile.name) = -1) =>
            selectedFile' = selectedFile]_vars

\* C38: in the preview panel, whenever a file is active and a src is displayed,
\* that src is the object URL of the active file: the previous file's image is
\* never shown under the new file.
C38_SrcIsOfActiveFile ==
    (isPreviewOpen /\ selectedFile # NullFile /\ src # NullFile) => src = selectedFile

\* a load (loadFilesFromDirectory) starts in this step
LoadBegins ==
    \E i \in 1..Len(loads') :
        /\ loads'[i].pc = "query"
        /\ (i > Len(loads) \/ loads[i].pc = "picker")

\* C39: every load clears error when it starts, so once a transition has completed
\* successfully with no other load in flight error is null; error becomes non-null
\* only when an attempt fails; up() on an empty stack leaves error untouched.
C39_ErrorLifecycle ==
    /\ [][LoadBegins => error' = Null]_vars
    /\ []((last.pc = "ok" /\ loads = <<>>) => error = Null)
    /\ [][(error' # Null /\ error' # error) => last'.pc \in {"failed", "pickerFailed"}]_vars
    /\ [][(navigateUp /\ Len(directoryStack) = 0) => error' = error]_vars

====
